---- MODULE Spec2Model ----
(***************************************************************************)
(* A model of TextParser (src/textparser.py): an event-based text parser   *)
(* that keeps, for every bound regular expression with a match in the      *)
(* remaining text, the position of its next match counted from the end of  *)
(* the text, fires the handler of the leftmost one and goes on with the    *)
(* text after it.  Handlers run inside parse() and may call                *)
(* reset_bindings, prepend_text_and_reset_bindings and terminate.          *)
(***************************************************************************)
EXTENDS Integers, Sequences, FiniteSets, TLC

(* ------------------------------ bounds --------------------------------- *)
\* longest text the parser is constructed with
MaxLen == 2
\* longest text of the runs without calls from the handlers
MaxPlainLen == 4
\* longest text a call of prepend_text_and_reset_bindings injects
MaxInject == 2
\* most regular expressions in one bindings dictionary
MaxBind == 2
\* most calls of prepend_text_and_reset_bindings in one run
MaxPrepends == 1
\* most MarkEvents of a run that the reference procedures follow
MaxEvents == 4

(* ------------------------------ inputs --------------------------------- *)
Alphabet == {"a", "b"}

\* The regular expressions of the runs: the literals a, b and ab, and the
\* end anchor $ (an empty match at the end of the text).
RegexSet == {"a", "b", "ab", "$"}

Handlers == {"H1", "H2"}

TextsUpTo(n) == UNION {[1..k -> Alphabet] : k \in 0..n}

\* the bindings dictionaries: from regular expressions to handlers
BindingsSet ==
  UNION {[K -> Handlers] : K \in {K \in SUBSET RegexSet : Cardinality(K) <= MaxBind}}

keys(bindings) == DOMAIN bindings

Range(s) == {s[i] : i \in DOMAIN s}

\* the orders in which a Python set with the elements S can be iterated
Orders(S) == {o \in [1..Cardinality(S) -> S] : Range(o) = S}

(* ------------------------ Python's primitives -------------------------- *)
Min(x, y) == IF x < y THEN x ELSE y
Max(x, y) == IF x > y THEN x ELSE y

\* s[:i]
SliceTo(s, i) ==
  IF i >= 0 THEN SubSeq(s, 1, Min(i, Len(s)))
            ELSE SubSeq(s, 1, Max(Len(s) + i, 0))

\* s[i:]
SliceFrom(s, i) ==
  IF i >= 0 THEN SubSeq(s, Min(i, Len(s)) + 1, Len(s))
            ELSE SubSeq(s, Max(Len(s) + i, 0) + 1, Len(s))

\* del s[i] / s.insert(i, x), with 0-based i
DelAt(s, i) == SubSeq(s, 1, i) \o SubSeq(s, i + 2, Len(s))
InsertAt(s, i, x) == SubSeq(s, 1, i) \o <<x>> \o SubSeq(s, i + 1, Len(s))

\* s.index(x): the 0-based index of the first x in s
index(s, x) == (CHOOSE i \in 1..Len(s) : s[i] = x /\ \A j \in 1..(i - 1) : s[j] # x) - 1

RECURSIVE bisect(_, _, _, _)
bisect(a, x, lo, hi) ==
  IF lo < hi
  THEN LET mid == (lo + hi) \div 2
       IN IF a[mid + 1] < x THEN bisect(a, x, mid + 1, hi) ELSE bisect(a, x, lo, mid)
  ELSE lo

\* bisect_left always answering the end of the list
bisect_at_end(a, x) == Len(a)

\* bisect.bisect_left(a, x)
bisect_left(a, x) == bisect(a, x, 0, Len(a))

\* the result of a search that finds nothing
None == [start |-> -1, end |-> -1]

Lit(regex) ==
  CASE regex = "a" -> <<"a">>
    [] regex = "b" -> <<"b">>
    [] regex = "ab" -> <<"a", "b">>

\* regex.search(text): the leftmost match, as its start and end offsets
search(regex, text) ==
  IF regex = "$"
  THEN [start |-> Len(text), end |-> Len(text)]
  ELSE LET lit == Lit(regex)
           at == {i \in 0..(Len(text) - Len(lit)) : SubSeq(text, i + 1, i + Len(lit)) = lit}
       IN IF at = {} THEN None
          ELSE LET i == CHOOSE i \in at : \A j \in at : i <= j
               IN [start |-> i, end |-> i + Len(lit)]

(* ------------------------- the event dispatcher ------------------------ *)
\* The dispatcher's table: a dictionary from events to their one handler.
has_handlers(h, regex) == regex \in DOMAIN h

bind_one(h, regex, handler) ==
  [e \in DOMAIN h \cup {regex} |-> IF e = regex THEN handler ELSE h[e]]

unbind_all(h, regex) == [e \in DOMAIN h \ {regex} |-> h[e]]

\* the handler that fire(regex, ...) calls
handler_of(h, regex) == IF has_handlers(h, regex) THEN h[regex] ELSE "none"

(* ------------------------------- state --------------------------------- *)
VARIABLES
  remainder_text,     \* self.remainder_text
  next_marks_revpos,  \* self.next_marks_revpos
  next_marks_match,   \* self.next_marks_match
  next_marks_re,      \* self.next_marks_re
  handlers,           \* self.eventdispatcher
  terminated,         \* self._update_mark_position is ..._terminate
  pc,                 \* where the run is: "start" (before parse()), "loop" and
                      \* "handler" (in parse()), "done" (parse() has returned),
                      \* "raised" (parse() has raised IndexError)
  regex,              \* parse()'s local, while its handler runs
  text0,              \* the text being parsed: the text the parser was constructed
                      \* with, or the text the last injection made of the remainder
  last,               \* the event just fired, in the state parse() fires it in
  prepends,           \* the calls of prepend_text_and_reset_bindings so far
  consumed,           \* the text parse() has taken off the front of text0 so far
  injected            \* the last injection made by the handler of a pattern that
                      \* was pending and that the call kept bound: the pattern
                      \* and the length of the remainder the text was put before

vars == <<remainder_text, next_marks_revpos, next_marks_match, next_marks_re,
          handlers, terminated, pc, regex, text0, last, prepends,
          consumed, injected>>

\* the parser object
Self ==
  [remainder_text |-> remainder_text,
   next_marks_revpos |-> next_marks_revpos,
   next_marks_match |-> next_marks_match,
   next_marks_re |-> next_marks_re,
   handlers |-> handlers,
   terminated |-> terminated]

Become(self) ==
  /\ remainder_text' = self.remainder_text
  /\ next_marks_revpos' = self.next_marks_revpos
  /\ next_marks_match' = self.next_marks_match
  /\ next_marks_re' = self.next_marks_re
  /\ handlers' = self.handlers
  /\ terminated' = self.terminated

(* ----------------------------- the methods ----------------------------- *)
_update_mark_position_continue(self, re) ==
  LET mark == search(re, self.remainder_text)
  IN IF mark = None
     THEN [self EXCEPT !.handlers = unbind_all(@, re)]
     ELSE LET revpos == Len(self.remainder_text) - mark.start
              revposindex == bisect_left(self.next_marks_revpos, revpos)
          IN [self EXCEPT
                !.next_marks_revpos = InsertAt(@, revposindex, revpos),
                !.next_marks_match = InsertAt(@, revposindex, mark),
                !.next_marks_re = InsertAt(@, revposindex, re)]

RECURSIVE unbind_each(_, _)
unbind_each(h, res) ==
  IF res = <<>> THEN h ELSE unbind_each(unbind_all(h, Head(res)), Tail(res))

_update_mark_position_terminate(self, re) ==
  [self EXCEPT
     !.handlers = unbind_each(@, self.next_marks_re),
     !.next_marks_revpos = <<>>,
     !.next_marks_match = <<>>,
     !.next_marks_re = <<>>]

\* _update_mark_position never switched to _update_mark_position_terminate
_update_mark_position_never_terminate(self, re) ==
  _update_mark_position_continue(self, re)

_update_mark_position(self, re) ==
  IF self.terminated
  THEN _update_mark_position_terminate(self, re)
  ELSE _update_mark_position_continue(self, re)

RECURSIVE bind_each(_, _, _)
bind_each(h, bindings, todo) ==
  IF todo = {} THEN h
  ELSE LET re == CHOOSE r \in todo : TRUE
       IN bind_each(bind_one(h, re, bindings[re]), bindings, todo \ {re})

RECURSIVE del_each(_, _)
del_each(self, dels) ==
  IF dels = {} THEN self
  ELSE LET re == CHOOSE r \in dels : TRUE
           i == index(self.next_marks_re, re)
       IN del_each([self EXCEPT
                      !.handlers = unbind_all(@, re),
                      !.next_marks_revpos = DelAt(@, i),
                      !.next_marks_match = DelAt(@, i),
                      !.next_marks_re = DelAt(@, i)],
                   dels \ {re})

RECURSIVE update_each(_, _)
update_each(self, order) ==
  IF order = <<>> THEN self
  ELSE update_each(_update_mark_position(self, Head(order)), Tail(order))

\* newbindings holding every key of bindings, pending or not
newbindings_every_key(self, bindings) == keys(bindings)

newbindings(self, bindings) == keys(bindings) \ Range(self.next_marks_re)
delbindings(self, bindings) == Range(self.next_marks_re) \ keys(bindings)

\* reset_bindings(bindings); order is the order in which the set
\* newbindings is iterated
reset_bindings(self, bindings, order) ==
  LET dels == delbindings(self, bindings)
      s1 == [self EXCEPT !.handlers = bind_each(@, bindings, keys(bindings))]
      s2 == del_each(s1, dels)
  IN update_each(s2, order)

\* prepend_text_and_reset_bindings with the text put after the remainder
append_text_and_reset_bindings(self, text, bindings, order) ==
  reset_bindings([self EXCEPT !.remainder_text = @ \o text], bindings, order)

prepend_text_and_reset_bindings(self, text, bindings, order) ==
  reset_bindings([self EXCEPT !.remainder_text = text \o @], bindings, order)

terminate(self) == [self EXCEPT !.terminated = TRUE]

\* parse_fire with the new remainder cut at the start of the match instead
\* of its end
parse_fire_at_start(self) ==
  LET revpos == self.next_marks_revpos[Len(self.next_marks_revpos)]
      mark == self.next_marks_match[Len(self.next_marks_match)]
      startpos == revpos * (-1)
      re == self.next_marks_re[Len(self.next_marks_re)]
      parsed_text == SliceTo(self.remainder_text, startpos)
  IN [self |-> [self EXCEPT !.remainder_text =
                   IF startpos < 0 THEN SliceFrom(@, startpos) ELSE <<>>],
      regex |-> re, mark |-> mark, revpos |-> revpos, parsed_text |-> parsed_text]

\* parse(), from the top of the loop to the call of fire: the entry taken,
\* the MarkEvent made of it and the parser with its new remainder_text
parse_fire(self) ==
  LET revpos == self.next_marks_revpos[Len(self.next_marks_revpos)]
      mark == self.next_marks_match[Len(self.next_marks_match)]
      startpos == revpos * (-1)
      endpos == startpos - mark.start + mark.end
      re == self.next_marks_re[Len(self.next_marks_re)]
      parsed_text == SliceTo(self.remainder_text, startpos)
  IN [self |-> [self EXCEPT !.remainder_text =
                   IF endpos < 0 THEN SliceFrom(@, endpos) ELSE <<>>],
      regex |-> re, mark |-> mark, revpos |-> revpos, parsed_text |-> parsed_text]

\* parse(), after fire has returned: del self.next_marks_revpos[-1] raises
\* IndexError when the regex has a handler and nothing is pending
parse_fired_raises(self, re) ==
  has_handlers(self.handlers, re) /\ self.next_marks_revpos = <<>>

\* parse(), after fire has returned
parse_fired(self, re) ==
  IF has_handlers(self.handlers, re)
  THEN LET n == Len(self.next_marks_re)
       IN _update_mark_position(
            [self EXCEPT
               !.next_marks_revpos = DelAt(@, n - 1),
               !.next_marks_match = DelAt(@, n - 1),
               !.next_marks_re = DelAt(@, n - 1)],
            re)
  ELSE self

(* ------------------------------ the runs ------------------------------- *)
NoEvent ==
  [event |-> "none", regex |-> "none", mark |-> None, revpos |-> 0,
   parsed_text |-> <<>>, handler |-> "none", before |-> <<>>, after |-> <<>>,
   bound |-> {}]

NoInjection == [by |-> "none", base |-> 0]

\* what a turn of parse() takes off the front of remainder_text: the text in
\* front of the remainder it leaves
Removed(before, after) == SubSeq(before, 1, Len(before) - Len(after))

\* the state after TextParser(text)
Constructed(texts) ==
  /\ remainder_text \in texts
  /\ text0 = remainder_text
  /\ next_marks_revpos = <<>>
  /\ next_marks_match = <<>>
  /\ next_marks_re = <<>>
  /\ handlers = <<>>  \* the empty dictionary
  /\ terminated = FALSE
  /\ pc = "start"
  /\ regex = "none"
  /\ last = NoEvent
  /\ prepends = 0
  /\ consumed = <<>>
  /\ injected = NoInjection

Init == Constructed(TextsUpTo(MaxLen))

\* the caller before parse(), or the handler of the event being fired
CanCall == pc \in {"start", "handler"}

CallResetBindings ==
  /\ CanCall
  /\ \E bindings \in BindingsSet :
       \E order \in Orders(newbindings(Self, bindings)) :
         Become(reset_bindings(Self, bindings, order))
  /\ last' = NoEvent
  /\ UNCHANGED <<pc, regex, text0, prepends, consumed, injected>>

CallPrependText ==
  /\ CanCall
  /\ prepends < MaxPrepends
  /\ \E text \in TextsUpTo(MaxInject) \ {<<>>} :
       \E bindings \in BindingsSet :
         \E order \in Orders(newbindings(Self, bindings)) :
           /\ Become(prepend_text_and_reset_bindings(Self, text, bindings, order))
           /\ text0' = text \o remainder_text
           /\ injected' = IF /\ pc = "handler"
                             /\ has_handlers(handlers, regex)
                             /\ regex \in Range(next_marks_re)
                             /\ regex \in keys(bindings)
                          THEN [by |-> regex, base |-> Len(remainder_text)]
                          ELSE NoInjection
  /\ consumed' = <<>>
  /\ prepends' = prepends + 1
  /\ last' = NoEvent
  /\ UNCHANGED <<pc, regex>>

CallTerminate ==
  /\ CanCall
  /\ ~terminated
  /\ Become(terminate(Self))
  /\ last' = NoEvent
  /\ UNCHANGED <<pc, regex, text0, prepends, consumed, injected>>

\* parse(): one turn of the loop up to the call of the handler
ParseFire ==
  /\ pc \in {"start", "loop"}
  /\ next_marks_revpos # <<>>
  /\ LET f == parse_fire(Self)
     IN /\ Become(f.self)
        /\ last' = [event |-> "MarkEvent", regex |-> f.regex, mark |-> f.mark,
                    revpos |-> f.revpos, parsed_text |-> f.parsed_text,
                    handler |-> handler_of(handlers, f.regex),
                    before |-> remainder_text,
                    after |-> f.self.remainder_text,
                    bound |-> DOMAIN handlers]
        \* with no handler bound the event is fired to nobody, and the test of
        \* has_handlers after it fails
        /\ pc' = IF has_handlers(handlers, f.regex) THEN "handler" ELSE "loop"
        /\ regex' = IF has_handlers(handlers, f.regex) THEN f.regex ELSE "none"
        /\ consumed' = consumed \o Removed(remainder_text, f.self.remainder_text)
  /\ UNCHANGED <<text0, prepends, injected>>

\* parse(): the handler has returned
HandlerReturn ==
  /\ pc = "handler"
  /\ IF parse_fired_raises(Self, regex)
     THEN pc' = "raised" /\ Become(Self)
     ELSE pc' = "loop" /\ Become(parse_fired(Self, regex))
  /\ regex' = "none"
  /\ last' = NoEvent
  /\ UNCHANGED <<text0, prepends, consumed, injected>>

\* parse(): nothing is pending; ParseEndEvent is fired and the text returned
ParseEnd ==
  /\ pc \in {"start", "loop"}
  /\ next_marks_revpos = <<>>
  /\ last' = [NoEvent EXCEPT !.event = "ParseEndEvent",
                             !.before = remainder_text,
                             !.after = remainder_text,
                             !.bound = DOMAIN handlers]
  /\ pc' = "done"
  /\ UNCHANGED <<remainder_text, next_marks_revpos, next_marks_match,
                 next_marks_re, handlers, terminated, regex, text0, prepends,
                 consumed, injected>>

Next ==
  \/ CallResetBindings
  \/ CallPrependText
  \/ CallTerminate
  \/ ParseFire
  \/ HandlerReturn
  \/ ParseEnd

Spec == Init /\ [][Next]_vars

\* The runs in which the caller installs bindings with reset_bindings before
\* parse() and the handlers do not call the parser.
InstallBindings == pc = "start" /\ CallResetBindings

NextPlain ==
  \/ InstallBindings
  \/ ParseFire
  \/ HandlerReturn
  \/ ParseEnd

InitPlain == Constructed(TextsUpTo(MaxPlainLen))

SpecPlain == InitPlain /\ [][NextPlain]_vars

\* parse() is sequential code and the handlers return: once called it goes
\* on taking its next step (the caller may install bindings any number of
\* times before, but does call parse())
ParseStep == ParseFire \/ HandlerReturn \/ ParseEnd

SpecPlainLive == InitPlain /\ [][NextPlain]_vars /\ WF_vars(ParseStep)

(* ------------------- parse() as a function of the parser ---------------- *)
\* no text: parse() has not returned within the events followed
Running == <<"running">>
\* no text: parse() has raised IndexError
Raised == <<"raised">>

\* parse() with handlers that do not call the parser: the MarkEvents fired
\* (regex, parsed_text, the handler called, remainder_text before and after)
\* and the text returned
RECURSIVE ParseRun(_, _)
ParseRun(self, fuel) ==
  IF self.next_marks_revpos = <<>>
  THEN [events |-> <<>>, leftover |-> self.remainder_text]
  ELSE IF fuel = 0
  THEN [events |-> <<>>, leftover |-> Running]
  ELSE LET f == parse_fire(self)
           r == IF parse_fired_raises(f.self, f.regex)
                THEN [events |-> <<>>, leftover |-> Raised]
                ELSE ParseRun(parse_fired(f.self, f.regex), fuel - 1)
       IN [events |-> <<[regex |-> f.regex, parsed_text |-> f.parsed_text,
                         handler |-> handler_of(self.handlers, f.regex),
                         before |-> self.remainder_text,
                         after |-> f.self.remainder_text]>> \o r.events,
           leftover |-> r.leftover]

(* ------------------------------- C1 ------------------------------------- *)
\* every match of regex in text: the leftmost match in each suffix of text
Matches(re, text) ==
  {[start |-> k + search(re, SliceFrom(text, k)).start,
    end |-> k + search(re, SliceFrom(text, k)).end] :
     k \in {k \in 0..Len(text) : search(re, SliceFrom(text, k)) # None}}

Overlap(m1, m2) ==
  \/ m1.start = m2.start
  \/ m1.start < m2.end /\ m2.start < m1.end

\* the matches of different patterns never overlap
NoOverlap(text, res) ==
  \A r1, r2 \in res : r1 # r2 =>
    \A m1 \in Matches(r1, text), m2 \in Matches(r2, text) : ~Overlap(m1, m2)

\* The reference procedure: search every still-bound pattern on the current
\* remainder, fire the one whose match starts leftmost, go on after the match.
RECURSIVE RefRun(_, _, _)
RefRun(text, res, fuel) ==
  LET found == {r \in res : search(r, text) # None}
  IN IF found = {}
     THEN [events |-> <<>>, leftover |-> text]
     ELSE IF fuel = 0
     THEN [events |-> <<>>, leftover |-> Running]
     ELSE LET r == CHOOSE r \in found :
                     \A q \in found : search(r, text).start <= search(q, text).start
              m == search(r, text)
              rest == RefRun(SubSeq(text, m.end + 1, Len(text)), found, fuel - 1)
          IN [events |-> <<(<<r, SubSeq(text, 1, m.start)>>)>> \o rest.events,
              leftover |-> rest.leftover]

\* a run without the handlers called
Firings(run) ==
  [events |-> [i \in DOMAIN run.events |->
                 <<run.events[i].regex, run.events[i].parsed_text>>],
   leftover |-> run.leftover]

\* C1: with bindings installed by reset_bindings before parse(), handlers
\* that make no calls and patterns whose matches never overlap, parse() fires
\* the same (pattern, parsed_text) sequence and returns the same leftover as
\* the reference procedure that always takes the leftmost match.
C1_LeftmostMatchWins ==
  (pc = "start" /\ NoOverlap(remainder_text, DOMAIN handlers))
    => Firings(ParseRun(Self, MaxEvents))
         = RefRun(remainder_text, DOMAIN handlers, MaxEvents)

(* ------------------------------- C2 ------------------------------------- *)
RECURSIVE ParsedTexts(_)
ParsedTexts(evs) ==
  IF evs = <<>> THEN <<>> ELSE Head(evs).parsed_text \o ParsedTexts(Tail(evs))

FiredIn(run) == {run.events[i].regex : i \in DOMAIN run.events}

\* C3: if the handler fired for a pattern calls reset_bindings with bindings
\* that do not hold the pattern, then when the handler returns the pattern
\* has no pending entry and no handler, parse() does not search it again,
\* and it is not fired again (no later reset_bindings adding it).  (Stated
\* for a parser that has not been terminated.)
C3_SelfUnbind ==
  (pc = "handler" /\ ~terminated) =>
    \A bindings \in BindingsSet : regex \notin keys(bindings) =>
      \A order \in Orders(newbindings(Self, bindings)) :
        LET called == reset_bindings(Self, bindings, order)
            returned == parse_fired(called, regex)
        IN /\ ~has_handlers(returned.handlers, regex)
           /\ regex \notin Range(returned.next_marks_re)
           /\ returned = called
           /\ regex \notin FiredIn(ParseRun(returned, MaxEvents))

(* ------------------------------- C4 ------------------------------------- *)
\* C4: if the handler fired for a pattern calls reset_bindings with bindings
\* that map the pattern to another handler, the pattern then has that one
\* handler and every later firing of the pattern in this parse() is
\* delivered to it.  (Stated for a parser that has not been terminated.)
C4_HandlerReplacement ==
  (pc = "handler" /\ ~terminated) =>
    \A bindings \in BindingsSet :
      (/\ regex \in keys(bindings)
       /\ has_handlers(handlers, regex)
       /\ bindings[regex] # handler_of(handlers, regex)) =>
        \A order \in Orders(newbindings(Self, bindings)) :
          LET called == reset_bindings(Self, bindings, order)
              run == ParseRun(parse_fired(called, regex), MaxEvents)
          IN /\ handler_of(called.handlers, regex) = bindings[regex]
             /\ ~parse_fired_raises(called, regex)
             /\ \A i \in DOMAIN run.events :
                  run.events[i].regex = regex
                    => run.events[i].handler = bindings[regex]

(* ------------------------------- C5 ------------------------------------- *)
\* C5: wherever reset_bindings can be called (before parse(), in a handler,
\* after terminate()), a second reset_bindings(b) right after
\* reset_bindings(b) leaves the remainder, the pending entries (positions,
\* matches, patterns, order) and the set of bound patterns as the first call
\* left them.
C5_ResetBindingsIdempotent ==
  CanCall =>
    \A bindings \in BindingsSet :
      \A order1 \in Orders(newbindings(Self, bindings)) :
        LET once == reset_bindings(Self, bindings, order1)
        IN \A order2 \in Orders(newbindings(once, bindings)) :
             LET twice == reset_bindings(once, bindings, order2)
             IN /\ twice.remainder_text = once.remainder_text
                /\ twice.next_marks_revpos = once.next_marks_revpos
                /\ twice.next_marks_match = once.next_marks_match
                /\ twice.next_marks_re = once.next_marks_re
                /\ DOMAIN twice.handlers = DOMAIN once.handlers

(* ------------------------------- C6 ------------------------------------- *)
\* the index of the entry of a pattern that is pending once
EntryOf(self, re) == index(self.next_marks_re, re) + 1

\* C6: of two pending entries with the same distance from the end, the one
\* inserted earlier fires first, that is, lies nearer the end of the lists:
\* an entry inserted for a new pattern lies before the entries that were
\* pending with the same distance, and, of two patterns that one call of
\* reset_bindings adds and that match at the same start offset, the one
\* bound first (the one earlier in the order of the keys of bindings, in
\* which bind_one is called) lies after the other.
C6_TieBreak ==
  (pc = "start" /\ ~terminated) =>
    /\ \A re \in RegexSet \ Range(next_marks_re) :
         LET s == _update_mark_position_continue(Self, re)
         IN re \in Range(s.next_marks_re) =>
              \A j \in DOMAIN s.next_marks_re :
                (/\ j # EntryOf(s, re)
                 /\ s.next_marks_revpos[j] = s.next_marks_revpos[EntryOf(s, re)])
                  => j > EntryOf(s, re)
    /\ \A bindings \in BindingsSet :
         \A keyorder \in Orders(keys(bindings)) :
           \A order \in Orders(newbindings(Self, bindings)) :
             LET s == reset_bindings(Self, bindings, order)
             IN \A p, q \in newbindings(Self, bindings) \cap Range(s.next_marks_re) :
                  (/\ index(keyorder, p) < index(keyorder, q)
                   /\ s.next_marks_revpos[EntryOf(s, p)]
                        = s.next_marks_revpos[EntryOf(s, q)])
                    => /\ EntryOf(s, p) > EntryOf(s, q)
                       /\ LET run == ParseRun(s, MaxEvents)
                              P == {i \in DOMAIN run.events : run.events[i].regex = p}
                              Q == {i \in DOMAIN run.events : run.events[i].regex = q}
                          IN Q # {} => \E i \in P : \A j \in Q : i < j

(* ------------------------------- C7 ------------------------------------- *)
IsSuffix(s, t) == Len(s) <= Len(t) /\ s = SubSeq(t, Len(t) - Len(s) + 1, Len(t))

Cleared(self) ==
  /\ self.next_marks_revpos = <<>>
  /\ self.next_marks_match = <<>>
  /\ self.next_marks_re = <<>>
  /\ DOMAIN self.handlers = {}

\* C8: after terminate(), the first refresh of a pattern, be it the search
\* parse() makes when the handler of a firing has returned or the search
\* reset_bindings makes for a pattern it adds, leaves nothing pending and no
\* pattern with a handler, the refreshed pattern included.
C8_TerminatedModeClears ==
  terminated =>
    /\ (pc = "handler" /\ has_handlers(handlers, regex)
          /\ ~parse_fired_raises(Self, regex))
         => Cleared(parse_fired(Self, regex))
    /\ CanCall =>
         \A bindings \in BindingsSet :
           newbindings(Self, bindings) # {} =>
             \A order \in Orders(newbindings(Self, bindings)) :
               Cleared(reset_bindings(Self, bindings, order))

(* ------------------------------- C9 ------------------------------------- *)
\* s is t with some of its elements deleted
RECURSIVE IsSubSeq(_, _)
IsSubSeq(s, t) ==
  IF s = <<>> THEN TRUE
  ELSE IF t = <<>> THEN FALSE
  ELSE IF Head(s) = Head(t) THEN IsSubSeq(Tail(s), Tail(t))
  ELSE IsSubSeq(s, Tail(t))

\* C9: once terminate() has been called the parser stays terminated, and no
\* step of reset_bindings, prepend_text_and_reset_bindings or parse() inserts
\* an entry: the pending entries after a step are entries pending before it,
\* and their number never increases.
C9_NoResurrection ==
  [][terminated =>
       /\ terminated'
       /\ Len(next_marks_re') <= Len(next_marks_re)
       /\ IsSubSeq(next_marks_re', next_marks_re)
       /\ IsSubSeq(next_marks_revpos', next_marks_revpos)
       /\ IsSubSeq(next_marks_match', next_marks_match)]_vars

\* parse() has returned from a terminated parser, with nothing pending, while
\* a pattern that is still bound has a match in the text left
C9_Witness ==
  /\ terminated
  /\ pc = "done"
  /\ last.event = "ParseEndEvent"
  /\ next_marks_re = <<>>
  /\ \E re \in DOMAIN handlers \ {"$"} : search(re, remainder_text) # None

(* ------------------------------- C10 ------------------------------------ *)
\* C10: with the same text, the same bindings and handlers that make no
\* calls, parse() fires the same (pattern, parsed_text) in the same order and
\* returns the same leftover, whatever the order in which reset_bindings
\* iterates the set of the patterns it adds.
C10_Determinism ==
  (pc = "start" /\ ~terminated) =>
    \A bindings \in BindingsSet :
      \A order1, order2 \in Orders(newbindings(Self, bindings)) :
        Firings(ParseRun(reset_bindings(Self, bindings, order1), MaxEvents))
          = Firings(ParseRun(reset_bindings(Self, bindings, order2), MaxEvents))

(* ------------------------------- C11 ------------------------------------ *)
\* C11: when a handler returns and the fired pattern still has a handler,
\* the entry parse() removes (the last one) is an entry of the fired pattern,
\* whatever calls of reset_bindings and prepend_text_and_reset_bindings the
\* handler made; no entry of another pattern is removed.
C11_ReentrancyFinalisation ==
  (pc = "handler" /\ ~terminated /\ has_handlers(handlers, regex)) =>
    /\ next_marks_re # <<>>
    /\ next_marks_re[Len(next_marks_re)] = regex
    /\ LET returned == parse_fired(Self, regex)
       IN \A re \in Range(next_marks_re) \ {regex} :
            re \in Range(returned.next_marks_re)

(* ------------------------------- C12 ------------------------------------ *)
\* C12: whenever parse() is about to take the next entry, the patterns with
\* a pending entry are exactly the patterns with a handler.
C12_SchedulerRegistryConsistent ==
  pc \in {"start", "loop"} => Range(next_marks_re) = DOMAIN handlers

(* ------------------------------- C13 ------------------------------------ *)
\* C13: no pattern has two pending entries.
C13_UniquePerPattern ==
  \A i, j \in DOMAIN next_marks_re : next_marks_re[i] = next_marks_re[j] => i = j

(* ------------------------------- C14 ------------------------------------ *)
\* the entry i of the parser denotes the leftmost match of its pattern in
\* the remainder
EntryValid(self, i) ==
  LET m == search(self.next_marks_re[i], self.remainder_text)
  IN /\ self.next_marks_revpos[i] <= Len(self.remainder_text)
     /\ m # None
     /\ self.next_marks_revpos[i] = Len(self.remainder_text) - m.start
     /\ self.next_marks_match[i].end - self.next_marks_match[i].start
          = m.end - m.start

\* C14: with handlers that make no calls, when parse() has consumed a match
\* and searched the fired pattern again, every pending entry has a distance
\* from the end not greater than the length of the remainder and denotes the
\* leftmost match of its pattern in the remainder.
C14_EntriesStayValid ==
  pc = "loop" => \A i \in DOMAIN next_marks_re : EntryValid(Self, i)

(* ------------------------------- C15 ------------------------------------ *)
\* C15: for every firing of an entry with a distance from the end d,
\* 0 <= d <= length of the remainder, and a match of n characters, the
\* remainder before the firing is parsed_text, then the n characters of the
\* match, then the remainder after the firing; when the match reaches the
\* end of the text the remainder after the firing is empty.
C15_SplitConservation ==
  (/\ last.event = "MarkEvent"
   /\ 0 <= last.revpos
   /\ last.revpos <= Len(last.before)) =>
    LET n == last.mark.end - last.mark.start
        k == Len(last.parsed_text)
    IN /\ Len(last.before) = k + n + Len(last.after)
       /\ last.before = last.parsed_text \o SubSeq(last.before, k + 1, k + n)
                          \o last.after
       /\ n = last.revpos => last.after = <<>>

(* ------------------------------- C16 ------------------------------------ *)
\* C16: with handlers that make no calls, for every text and every binding
\* set (patterns that match the empty string included) parse() eventually
\* leaves its loop; then it has fired ParseEndEvent, after the last
\* MarkEvent, with the text it returns, and nothing is fired after it.
C16_Termination ==
  /\ <>(pc = "done")
  /\ [](pc = "done" => /\ last.event = "ParseEndEvent"
                       /\ last.after = remainder_text
                       /\ next_marks_re = <<>>)
  /\ [][pc = "done" => pc' = "done" /\ last' = last]_vars

(* ------------------------------- C17 ------------------------------------ *)
\* the number of entries the pattern has
Entries(self, re) ==
  Cardinality({i \in DOMAIN self.next_marks_re : self.next_marks_re[i] = re})

\* C17: after reset_bindings(bindings) in a parser that is not terminated
\* and has no pattern pending twice, (1) a pattern that is not a key of
\* bindings has no handler and no entry, (2) a key of bindings that was not
\* pending and has no match in the remainder has no handler and no entry,
\* (3) a key of bindings that was not pending and has a match has a handler
\* and exactly one entry, with the distance of its leftmost match from the
\* end of the remainder.
C17_ReconcilePostState ==
  (CanCall /\ ~terminated /\ C13_UniquePerPattern) =>
    \A bindings \in BindingsSet :
      \A order \in Orders(newbindings(Self, bindings)) :
        LET s == reset_bindings(Self, bindings, order)
        IN /\ \A re \in RegexSet \ keys(bindings) :
                ~has_handlers(s.handlers, re) /\ Entries(s, re) = 0
           /\ \A re \in keys(bindings) \ Range(next_marks_re) :
                LET m == search(re, remainder_text)
                IN IF m = None
                   THEN ~has_handlers(s.handlers, re) /\ Entries(s, re) = 0
                   ELSE /\ has_handlers(s.handlers, re)
                        /\ Entries(s, re) = 1
                        /\ s.next_marks_revpos[EntryOf(s, re)]
                             = Len(remainder_text) - m.start
                        /\ s.next_marks_match[EntryOf(s, re)] = m

(* ------------------------------- C18 ------------------------------------ *)
\* C18: parse() never fires a pattern that has no handler at the moment of
\* the firing.
C18_NoFiringWithoutHandler ==
  last.event = "MarkEvent" =>
    /\ last.handler # "none"
    /\ last.regex \in last.bound

(* ------------------------------- C19 ------------------------------------ *)
\* the entries, in their order, of the patterns in res
RECURSIVE EntriesOf(_, _, _)
EntriesOf(self, res, i) ==
  IF i > Len(self.next_marks_re) THEN <<>>
  ELSE (IF self.next_marks_re[i] \in res
        THEN <<(<<self.next_marks_revpos[i], self.next_marks_match[i],
                  self.next_marks_re[i]>>)>>
        ELSE <<>>) \o EntriesOf(self, res, i + 1)

Triples ==
  {<<next_marks_revpos[i], next_marks_match[i], next_marks_re[i]>> :
     i \in DOMAIN next_marks_re}

ParallelOrdered ==
  /\ Len(next_marks_revpos) = Len(next_marks_re)
  /\ Len(next_marks_match) = Len(next_marks_re)
  /\ \A i, j \in DOMAIN next_marks_revpos :
       i <= j => next_marks_revpos[i] <= next_marks_revpos[j]
  /\ \A i \in DOMAIN next_marks_revpos :
       next_marks_revpos[i] <= next_marks_revpos[Len(next_marks_revpos)]
  /\ \A i \in DOMAIN next_marks_re :
       /\ next_marks_match[i] # None
       /\ next_marks_match[i].end - next_marks_match[i].start
            = (IF next_marks_re[i] = "$" THEN 0 ELSE Len(Lit(next_marks_re[i])))

\* C20: in every reachable state the three lists have the same length and
\* next_marks_revpos is in non-decreasing order, so that the last entry has
\* the largest distance; and index i of the three lists describes one entry:
\* every step leaves at each index a triple (distance, match, pattern) that
\* was at one index before the step, or the triple of a search of the
\* pattern in the remainder.
C20_OrderedParallelLists ==
  /\ []ParallelOrdered
  /\ [][\A i \in DOMAIN next_marks_re' :
          \/ <<next_marks_revpos'[i], next_marks_match'[i], next_marks_re'[i]>>
               \in Triples
          \/ /\ next_marks_match'[i] = search(next_marks_re'[i], remainder_text')
             /\ next_marks_revpos'[i]
                  = Len(remainder_text') - next_marks_match'[i].start]_vars

\* after an injection, insertions and deletions, parse() is in its loop with
\* entries of two patterns at different distances
C20_Witness ==
  /\ pc = "loop"
  /\ prepends = 1
  /\ Len(next_marks_re) >= 2
  /\ next_marks_re[1] # next_marks_re[2]
  /\ next_marks_revpos[1] < next_marks_revpos[2]
  /\ consumed # <<>>

====
